---- MODULE Spec2Model ----
(***************************************************************************)
(* Address-book service: authentication flows (signup, login, refresh,     *)
(* email confirmation, resend), the avatar update and the contact          *)
(* operations guarded by ownership.  Every request handler is one action;  *)
(* the verification mail is a background task run after the response.      *)
(***************************************************************************)
EXTENDS Integers, Sequences, FiniteSets, TLC

\* ------------------------------------------------------------------ bounds
MaxTime == 1          \* the clock runs 0..MaxTime (seconds, abstracted)
MaxContacts == 1      \* contact ids handed out by the contacts table
MaxAge == 2           \* the clock of the expiry runs goes 0..MaxAge
MaxMails == 1         \* verification mails of one address queued at a time

\* ------------------------------------------------------ input domains
EmailSeq == <<"a@x", "b@x">>
Emails == {EmailSeq[i] : i \in 1..Len(EmailSeq)}
Passwords == {"pw1", "pw2"}
SignupPasswords == {"pw1"}
Bodies == {[first_name |-> "n1", email |-> "c1"],
           [first_name |-> "n2", email |-> "c2"]}

\* ------------------------------------------------------------ Token Codec
Scopes == {"access", "refresh", "email_verification"}

AccessTTL == 1
RefreshTTL == 2
EmailTTL == 2

TTL(scope) ==
    CASE scope = "access" -> AccessTTL
      [] scope = "refresh" -> RefreshTTL
      [] OTHER -> EmailTTL

\* Faulty variant: a token that expires the moment it is issued
issue_no_ttl(subject, scope, t) ==
    [sub |-> subject, scope |-> scope, iat |-> t, exp |-> t]

\* A token is its claim set: the signature is a function of the claims and
\* of the process-wide key, so two tokens with equal claims are equal strings.
issue(subject, scope, t) ==
    [sub |-> subject, scope |-> scope, iat |-> t, exp |-> t + TTL(scope)]

\* A string that is not a signed token of this service.
Garbage == [sub |-> "", scope |-> "garbage", iat |-> 0, exp |-> 0]

\* refresh_token = None on the User row
Null == [sub |-> "", scope |-> "null", iat |-> 0, exp |-> 0]

\* Faulty variant: the scope is compared before the expiry
decode_scope_first(token, expected_scope, t) ==
    IF token.scope \notin Scopes
    THEN [ok |-> FALSE, err |-> "InvalidToken", sub |-> ""]
    ELSE IF token.scope # expected_scope
    THEN [ok |-> FALSE, err |-> "ScopeMismatch", sub |-> ""]
    ELSE IF ~(token.exp > t)
    THEN [ok |-> FALSE, err |-> "ExpiredToken", sub |-> ""]
    ELSE [ok |-> TRUE, err |-> "", sub |-> token.sub]

\* verify the signature, then expires_at > now, then the scope
decode(token, expected_scope, t) ==
    IF token.scope \notin Scopes
    THEN [ok |-> FALSE, err |-> "InvalidToken", sub |-> ""]
    ELSE IF ~(token.exp > t)
    THEN [ok |-> FALSE, err |-> "ExpiredToken", sub |-> ""]
    ELSE IF token.scope # expected_scope
    THEN [ok |-> FALSE, err |-> "ScopeMismatch", sub |-> ""]
    ELSE [ok |-> TRUE, err |-> "", sub |-> token.sub]

\* ------------------------------------------------------ Credential Hasher
get_password_hash(p) == <<"hash", p>>
verify_password(p, h) == h = <<"hash", p>>

Gravatar(email) == <<"gravatar", email>>
CloudinaryUrl(username) == <<"cloudinary", username>>

\* ------------------------------------------------------------------ state
VARIABLES
    users,       \* the users table: a sequence of rows, row i has id i
    contacts,    \* the contacts table: a set of rows
    next_id,     \* next primary key of the contacts table
    now,         \* the clock
    bt,          \* background tasks queued: per email, the mails awaiting send_email
    issued,      \* tokens handed to clients (responses and delivered mails)
    last,        \* the response to the last request
    revoked,     \* history: the tokens refresh has rejected as not the stored one
    calls,       \* requests in flight, between their read and their write
    scenario     \* history: the responses to the steps of the end-to-end scenario

vars == <<users, contacts, next_id, now, bt, issued, last, revoked, calls,
          scenario>>

\* What the atomic handlers leave alone.
hist == <<revoked, calls, scenario>>

Resp(op, status, detail) ==
    [op |-> op, status |-> status, detail |-> detail,
     access_token |-> Null, refresh_token |-> Null]

UserIds == 1..Len(users)

\* repository_users.get_user_by_email: the id of the row, 0 for None
get_user_by_email(email) ==
    IF \E i \in UserIds : users[i].email = email
    THEN CHOOSE i \in UserIds : users[i].email = email
    ELSE 0

\* A commit of a changed row stamps updated_at (onupdate=func.now());
\* a row without net change emits no UPDATE.
Touch(old, new) ==
    IF new = old THEN old ELSE [new EXCEPT !.updated_at = now]

\* Faulty variant: the row is created already verified
create_user_verified(email, hashed) ==
    Append(users, [id |-> Len(users) + 1, email |-> email, password |-> hashed,
                   avatar |-> Gravatar(email), verification |-> TRUE,
                   refresh_token |-> Null, updated_at |-> now])

\* repository_users.create_user
create_user(email, hashed) ==
    Append(users, [id |-> Len(users) + 1, email |-> email, password |-> hashed,
                   avatar |-> Gravatar(email), verification |-> FALSE,
                   refresh_token |-> Null, updated_at |-> now])

\* repository_users.update_token
update_token(i, token) ==
    [users EXCEPT ![i] = Touch(@, [@ EXCEPT !.refresh_token = token])]

\* repository_users.verification_email
verification_email(email) ==
    LET i == get_user_by_email(email)
    IN [users EXCEPT ![i] = Touch(@, [@ EXCEPT !.verification = TRUE])]

\* Faulty variant: the avatar update also drops the session
update_avatar_clears_token(email, url) ==
    LET i == get_user_by_email(email)
    IN [users EXCEPT ![i] = Touch(@, [@ EXCEPT !.avatar = url,
                                               !.refresh_token = Null])]

\* repository_users.update_avatar
update_avatar(email, url) ==
    LET i == get_user_by_email(email)
    IN [users EXCEPT ![i] = Touch(@, [@ EXCEPT !.avatar = url])]

\* What a client can put in a request: a token it was given, or junk.
Presentable == issued \cup {Garbage}

\* Emails are interchangeable: the next unused one is the next of EmailSeq.
SignupEmails ==
    {users[i].email : i \in UserIds} \cup
    (IF Len(users) < Len(EmailSeq) THEN {EmailSeq[Len(users) + 1]} ELSE {})

\* decode rejects an expired token before it reads any other claim, so a
\* client's expired token is kept up to its scope.
Expired(scope) == [sub |-> "", scope |-> scope, iat |-> 0, exp |-> 0]
Aged(token, t) == IF token.exp > t THEN token ELSE Expired(token.scope)

\* ---------------------------------------------------------- auth handlers
\* Faulty variant: the mail is queued twice
add_task_twice(email) == [bt EXCEPT ![email] = @ + 2]

\* BackgroundTasks.add_task(send_email, email, ...)
add_task(email) == [bt EXCEPT ![email] = @ + 1]

\* Faulty variant: signup without the existence check
signup_no_check(email, password) ==
    /\ users' = create_user(email, get_password_hash(password))
    /\ bt' = add_task(email)
    /\ last' = Resp("signup", 201, "User successfully created")
    /\ UNCHANGED <<contacts, next_id, now, issued>>

\* POST /auth/signup
signup(email, password) ==
    LET exist_user == get_user_by_email(email)
    IN IF exist_user # 0
       THEN /\ last' = Resp("signup", 409, "Account already exists")
            /\ UNCHANGED <<users, contacts, next_id, now, bt, issued>>
       ELSE /\ users' = create_user(email, get_password_hash(password))
            /\ bt' = add_task(email)
            /\ last' = Resp("signup", 201, "User successfully created")
            /\ UNCHANGED <<contacts, next_id, now, issued>>

\* Faulty variant: a mail that cannot be delivered fails the request
send_email_raises(email, delivered) ==
    /\ bt[email] > 0
    /\ bt' = [bt EXCEPT ![email] = @ - 1]
    /\ IF delivered
       THEN /\ issued' = issued \cup {issue(email, "email_verification", now)}
            /\ last' = last
       ELSE /\ issued' = issued
            /\ last' = Resp(last.op, 500, "ConnectionErrors")
    /\ UNCHANGED <<users, contacts, next_id, now>>

\* Faulty variant: the users table without the unique index on email
email_unique_violation_off(email) == FALSE

\* users.email is unique: an insert of an email a row already has raises
email_unique_violation(email) ==
    \E i \in UserIds : users[i].email = email

\* signup, lines 27-33: the existence check and the hashing of the password
signup_check(c, email, password) ==
    /\ calls[c].pc = "idle"
    /\ IF get_user_by_email(email) # 0
       THEN /\ calls' = [calls EXCEPT ![c] =
                            [@ EXCEPT !.pc = "done", !.email = email,
                                      !.status = 409]]
            /\ last' = Resp("signup", 409, "Account already exists")
       ELSE /\ calls' = [calls EXCEPT ![c] =
                            [@ EXCEPT !.pc = "checked", !.email = email,
                                      !.password = get_password_hash(password)]]
            /\ last' = last
    /\ UNCHANGED <<users, contacts, next_id, now, bt, issued, revoked,
                   scenario>>

\* signup, lines 34-39: the insert, the mail task and the response
signup_insert(c) ==
    LET call == calls[c]
    IN /\ call.pc = "checked"
       /\ IF email_unique_violation(call.email)
          THEN \* IntegrityError out of db.commit(), not handled
               /\ calls' = [calls EXCEPT ![c] =
                               [@ EXCEPT !.pc = "done", !.status = 500]]
               /\ last' = Resp("signup", 500, "IntegrityError")
               /\ UNCHANGED <<users, bt>>
          ELSE /\ users' = create_user(call.email, call.password)
               /\ bt' = add_task(call.email)
               /\ calls' = [calls EXCEPT ![c] =
                               [@ EXCEPT !.pc = "done", !.status = 201]]
               /\ last' = Resp("signup", 201, "User successfully created")
       /\ UNCHANGED <<contacts, next_id, now, issued, revoked, scenario>>

\* services.verification.send_email, run as a background task
send_email(email, delivered) ==
    /\ bt[email] > 0
    /\ bt' = [bt EXCEPT ![email] = @ - 1]
    /\ LET token_verification == issue(email, "email_verification", now)
       IN IF delivered
          THEN issued' = issued \cup {token_verification}
          ELSE issued' = issued   \* ConnectionErrors: printed, not raised
    /\ UNCHANGED <<users, contacts, next_id, now, last>>

\* Faulty variant: login without the verification gate
login_check_no_verification(email, password) ==
    LET user == get_user_by_email(email)
    IN IF user = 0 THEN "Invalid email"
       ELSE IF ~verify_password(password, users[user].password)
       THEN "Invalid password"
       ELSE ""

\* Faulty variant: login that compares the password before it reads the flag
login_check_password_first(email, password) ==
    LET user == get_user_by_email(email)
    IN IF user = 0 THEN "Invalid email"
       ELSE IF ~verify_password(password, users[user].password)
       THEN "Invalid password"
       ELSE IF ~users[user].verification THEN "Email not verification"
       ELSE ""

\* login, lines 52-61: the detail of the 401 raised, "" when none is
login_check(email, password) ==
    LET user == get_user_by_email(email)
    IN IF user = 0 THEN "Invalid email"
       ELSE IF ~users[user].verification THEN "Email not verification"
       ELSE IF ~verify_password(password, users[user].password)
       THEN "Invalid password"
       ELSE ""

\* Faulty variant: login that returns the tokens without storing the refresh token
login_issue_no_store(user) ==
    LET access_token == issue(users[user].email, "access", now)
        refresh_token == issue(users[user].email, "refresh", now)
    IN /\ issued' = issued \cup {access_token, refresh_token}
       /\ last' = [Resp("login", 200, "bearer") EXCEPT
                      !.access_token = access_token,
                      !.refresh_token = refresh_token]
       /\ UNCHANGED <<users, contacts, next_id, now, bt>>

\* login, lines 62-67: generate the tokens, store and return them
login_issue(user) ==
    LET access_token == issue(users[user].email, "access", now)
        refresh_token == issue(users[user].email, "refresh", now)
    IN /\ users' = update_token(user, refresh_token)
       /\ issued' = issued \cup {access_token, refresh_token}
       /\ last' = [Resp("login", 200, "bearer") EXCEPT
                      !.access_token = access_token,
                      !.refresh_token = refresh_token]
       /\ UNCHANGED <<contacts, next_id, now, bt>>

\* Faulty variant: a refused login of an existing user drops the session
login_failure_clears(email, password) ==
    LET detail == login_check(email, password)
        user == get_user_by_email(email)
    IN IF detail # ""
       THEN /\ last' = Resp("login", 401, detail)
            /\ users' = IF user = 0 THEN users ELSE update_token(user, Null)
            /\ UNCHANGED <<contacts, next_id, now, bt, issued>>
       ELSE login_issue(user)

\* POST /auth/login
login(email, password) ==
    LET detail == login_check(email, password)
    IN IF detail # ""
       THEN /\ last' = Resp("login", 401, detail)
            /\ UNCHANGED <<users, contacts, next_id, now, bt, issued>>
       ELSE login_issue(get_user_by_email(email))

\* Faulty variant: refresh that returns the tokens without storing the new one
refresh_rotate_no_store(user, email) ==
    LET access_token == issue(email, "access", now)
        new_refresh == issue(email, "refresh", now)
    IN /\ issued' = issued \cup {access_token, new_refresh}
       /\ last' = [Resp("refresh_token", 200, "bearer") EXCEPT
                      !.access_token = access_token,
                      !.refresh_token = new_refresh]
       /\ UNCHANGED <<users, contacts, next_id, now, bt>>

\* Faulty variant: the rotation writes the first row of the table
refresh_rotate_first_user(user, email) ==
    LET access_token == issue(email, "access", now)
        new_refresh == issue(email, "refresh", now)
    IN /\ users' = update_token(1, new_refresh)
       /\ issued' = issued \cup {access_token, new_refresh}
       /\ last' = [Resp("refresh_token", 200, "bearer") EXCEPT
                      !.access_token = access_token,
                      !.refresh_token = new_refresh]
       /\ UNCHANGED <<contacts, next_id, now, bt>>

\* refresh_token, lines 88-92: rotate
refresh_rotate(user, email) ==
    LET access_token == issue(email, "access", now)
        new_refresh == issue(email, "refresh", now)
    IN /\ users' = update_token(user, new_refresh)
       /\ issued' = issued \cup {access_token, new_refresh}
       /\ last' = [Resp("refresh_token", 200, "bearer") EXCEPT
                      !.access_token = access_token,
                      !.refresh_token = new_refresh]
       /\ UNCHANGED <<contacts, next_id, now, bt>>

\* Faulty variant: a token that is not the stored one is refused and the
\* stored one is kept
refresh_decoded_keeps_session(token, d) ==
    IF ~d.ok
    THEN /\ last' = Resp("refresh_token", 401, d.err)
         /\ UNCHANGED <<users, contacts, next_id, now, bt, issued>>
    ELSE LET email == d.sub
             user == get_user_by_email(email)
         IN IF user = 0
            THEN /\ last' = Resp("refresh_token", 500, "AttributeError")
                 /\ UNCHANGED <<users, contacts, next_id, now, bt, issued>>
            ELSE IF users[user].refresh_token # token
            THEN /\ last' = Resp("refresh_token", 401, "Invalid refresh token")
                 /\ UNCHANGED <<users, contacts, next_id, now, bt, issued>>
            ELSE refresh_rotate(user, email)

\* refresh_token, lines 82-92, d the outcome of decode_refresh_token
refresh_decoded(token, d) ==
    IF ~d.ok
    THEN /\ last' = Resp("refresh_token", 401, d.err)
         /\ UNCHANGED <<users, contacts, next_id, now, bt, issued>>
    ELSE LET email == d.sub
             user == get_user_by_email(email)
         IN IF user = 0
            THEN \* user.refresh_token on None
                 /\ last' = Resp("refresh_token", 500, "AttributeError")
                 /\ UNCHANGED <<users, contacts, next_id, now, bt, issued>>
            ELSE IF users[user].refresh_token # token
            THEN /\ users' = update_token(user, Null)
                 /\ last' = Resp("refresh_token", 401, "Invalid refresh token")
                 /\ UNCHANGED <<contacts, next_id, now, bt, issued>>
            ELSE refresh_rotate(user, email)

\* Faulty variant: refresh that accepts a token of any scope
refresh_token_any_scope(token) ==
    refresh_decoded(token, decode(token, token.scope, now))

\* The requests that run a handler concurrently, each with its own
\* database session; seq numbers the commits in the order they happened.
CallIds == {1, 2}
Idle == [pc |-> "idle", token |-> Null, user |-> 0, seen |-> Null,
         status |-> 0, result |-> Null, seq |-> 0,
         email |-> "", password |-> <<>>]

\* update_token in a session that loaded the row with refresh_token = seen:
\* the commit updates that column of the row, and emits no UPDATE when the
\* attribute is set to the value it was loaded with.
commit_token(user, seen, token) ==
    IF token = seen
    THEN users
    ELSE [users EXCEPT ![user] = [@ EXCEPT !.refresh_token = token,
                                           !.updated_at = now]]

\* refresh_token, lines 80-82: decode the token and load the user row
refresh_read(c, token) ==
    LET d == decode(token, "refresh", now)
        user == get_user_by_email(d.sub)
    IN /\ calls[c].pc = "idle"
       /\ IF ~d.ok \/ user = 0
          THEN /\ calls' = [calls EXCEPT ![c] =
                               [@ EXCEPT !.pc = "done", !.token = token,
                                         !.status = IF d.ok THEN 500 ELSE 401]]
               /\ last' = IF d.ok
                          THEN Resp("refresh_token", 500, "AttributeError")
                          ELSE Resp("refresh_token", 401, d.err)
          ELSE /\ calls' = [calls EXCEPT ![c] =
                               [@ EXCEPT !.pc = "read", !.token = token,
                                         !.user = user,
                                         !.seen = users[user].refresh_token]]
               /\ last' = last
       /\ UNCHANGED <<users, contacts, next_id, now, bt, issued, revoked,
                      scenario>>

\* refresh_token, lines 83-92: compare what was loaded, then write
refresh_write(c) ==
    LET call == calls[c]
        email == users[call.user].email
        commits == {calls[k].seq : k \in CallIds}
        seq == 1 + CHOOSE n \in commits : \A m \in commits : m <= n
    IN /\ call.pc = "read"
       /\ IF call.seen # call.token
          THEN /\ users' = commit_token(call.user, call.seen, Null)
               /\ calls' = [calls EXCEPT ![c] =
                               [@ EXCEPT !.pc = "done", !.status = 401,
                                         !.seq = seq]]
               /\ last' = Resp("refresh_token", 401, "Invalid refresh token")
               /\ issued' = issued
          ELSE LET access_token == issue(email, "access", now)
                   new_refresh == issue(email, "refresh", now)
               IN /\ users' = commit_token(call.user, call.seen, new_refresh)
                  /\ calls' = [calls EXCEPT ![c] =
                                  [@ EXCEPT !.pc = "done", !.status = 200,
                                            !.result = new_refresh,
                                            !.seq = seq]]
                  /\ issued' = issued \cup {access_token, new_refresh}
                  /\ last' = [Resp("refresh_token", 200, "bearer") EXCEPT
                                 !.access_token = access_token,
                                 !.refresh_token = new_refresh]
       /\ UNCHANGED <<contacts, next_id, now, bt, revoked, scenario>>

\* GET /auth/refresh_token
refresh_token(token) == refresh_decoded(token, decode(token, "refresh", now))

\* Faulty variant: confirmation without the already-confirmed branch
confirmed_decoded_no_check(token, d) ==
    IF ~d.ok
    THEN /\ last' = Resp("confirmed_email", 401, d.err)
         /\ UNCHANGED <<users, contacts, next_id, now, bt, issued>>
    ELSE IF get_user_by_email(d.sub) = 0
    THEN /\ last' = Resp("confirmed_email", 400, "Verification error")
         /\ UNCHANGED <<users, contacts, next_id, now, bt, issued>>
    ELSE /\ users' = verification_email(d.sub)
         /\ last' = Resp("confirmed_email", 200, "Email confirmed")
         /\ UNCHANGED <<contacts, next_id, now, bt, issued>>

\* confirmed_email, lines 111-120, d the outcome of get_email_from_token
confirmed_decoded(token, d) ==
    IF ~d.ok
    THEN /\ last' = Resp("confirmed_email", 401, d.err)
         /\ UNCHANGED <<users, contacts, next_id, now, bt, issued>>
    ELSE LET email == d.sub
             user == get_user_by_email(email)
         IN IF user = 0
            THEN /\ last' = Resp("confirmed_email", 400, "Verification error")
                 /\ UNCHANGED <<users, contacts, next_id, now, bt, issued>>
            ELSE IF users[user].verification
            THEN /\ last' = Resp("confirmed_email", 200,
                                 "Your email is already confirmed")
                 /\ UNCHANGED <<users, contacts, next_id, now, bt, issued>>
            ELSE /\ users' = verification_email(email)
                 /\ last' = Resp("confirmed_email", 200, "Email confirmed")
                 /\ UNCHANGED <<contacts, next_id, now, bt, issued>>

\* GET /auth/confirmed_email/{token}
confirmed_email(token) ==
    confirmed_decoded(token, decode(token, "email_verification", now))

\* POST /auth/request_email
request_email(email) ==
    LET user == get_user_by_email(email)
    IN IF user = 0
       THEN \* user.verification on None
            /\ last' = Resp("request_email", 500, "AttributeError")
            /\ UNCHANGED <<users, contacts, next_id, now, bt, issued>>
       ELSE IF users[user].verification
       THEN /\ last' = Resp("request_email", 200,
                            "Your email is already verification")
            /\ UNCHANGED <<users, contacts, next_id, now, bt, issued>>
       ELSE /\ bt[users[user].email] < MaxMails
            /\ bt' = add_task(users[user].email)
            /\ last' = Resp("request_email", 200,
                            "Check your email for confirmation.")
            /\ UNCHANGED <<users, contacts, next_id, now, issued>>

\* -------------------------------------------------- current identity
\* auth_service.get_current_user: the id of the user, 0 when it raises 401
get_current_user(token) ==
    LET d == decode(token, "access", now)
    IN IF d.ok THEN get_user_by_email(d.sub) ELSE 0

Unauthorized(op, token) ==
    LET d == decode(token, "access", now)
    IN Resp(op, 401, IF d.ok THEN "Could not validate credentials" ELSE d.err)

\* PATCH /user/avatar
update_avatar_user(token) ==
    LET current_user == get_current_user(token)
    IN IF current_user = 0
       THEN /\ last' = Unauthorized("update_avatar_user", token)
            /\ UNCHANGED <<users, contacts, next_id, now, bt, issued>>
       ELSE /\ users' = update_avatar(users[current_user].email,
                                      CloudinaryUrl(current_user))
            /\ last' = Resp("update_avatar_user", 200, "")
            /\ UNCHANGED <<contacts, next_id, now, bt, issued>>

\* ----------------------------------------------------- contacts repository
\* Faulty variant: the lookup by id alone
filter_by_id_only(contact_id, user_id) ==
    {c \in contacts : c.id = contact_id}

\* Faulty variant: a contact without owner matches every user
filter_by_or_ownerless(contact_id, user_id) ==
    {c \in contacts : c.id = contact_id /\ c.user_id \in {user_id, 0}}

\* select(Contact).filter_by(id=contact_id, user_id=user_id)
filter_by(contact_id, user_id) ==
    {c \in contacts : c.id = contact_id /\ c.user_id = user_id}

\* repository contacts.get_contact_by_id: select(Contact).filter_by(id=contact_id)
get_contact_by_id(contact_id) ==
    {c \in contacts : c.id = contact_id}

\* contacts.email is unique: a commit that would break it raises
EmailTaken(email, except_id) ==
    \E c \in contacts : c.email = email /\ c.id # except_id

\* Faulty variant: the owner is not the user_id argument
repo_create_contact_wrong_owner(body, user_id) ==
    contacts \cup {[id |-> next_id, first_name |-> body.first_name,
                    email |-> body.email, user_id |-> 1]}

\* repository contacts.create_contact: the new table
repo_create_contact(body, user_id) ==
    contacts \cup {[id |-> next_id, first_name |-> body.first_name,
                    email |-> body.email, user_id |-> user_id]}

\* Faulty variant: the update also writes the owner column
repo_update_contact_drops_owner(contact_id, body, user_id) ==
    {IF c \in filter_by(contact_id, user_id)
     THEN [c EXCEPT !.first_name = body.first_name, !.email = body.email,
                    !.user_id = 0]
     ELSE c : c \in contacts}

\* repository contacts.update_contact: the new table (the row exists)
repo_update_contact(contact_id, body, user_id) ==
    {IF c \in filter_by(contact_id, user_id)
     THEN [c EXCEPT !.first_name = body.first_name, !.email = body.email]
     ELSE c : c \in contacts}

\* Faulty variant: the delete removes every contact of the caller
repo_delete_contact_all(contact_id, user_id) ==
    {c \in contacts : c.user_id # user_id}

\* repository contacts.delete_contact: the new table
repo_delete_contact(contact_id, user_id) ==
    contacts \ filter_by(contact_id, user_id)

\* ------------------------------------------------------- contact handlers
\* POST /contacts/
create_contact(token, body) ==
    LET current_user == get_current_user(token)
    IN IF current_user = 0
       THEN /\ last' = Unauthorized("create_contact", token)
            /\ UNCHANGED <<users, contacts, next_id, now, bt, issued>>
       ELSE /\ next_id <= MaxContacts
            /\ next_id' = next_id + 1
            /\ contacts' = IF EmailTaken(body.email, 0)
                           THEN contacts   \* IntegrityError, caught by except
                           ELSE repo_create_contact(body, current_user)
            \* the finally clause raises whatever the try block returned
            /\ last' = Resp("create_contact", 404, "Not authorized!")
            /\ UNCHANGED <<users, now, bt, issued>>

\* PUT /contacts/id/{contact_id}
update_contact(token, contact_id, body) ==
    LET current_user == get_current_user(token)
    IN IF current_user = 0
       THEN /\ last' = Unauthorized("update_contact", token)
            /\ UNCHANGED <<users, contacts, next_id, now, bt, issued>>
       ELSE IF filter_by(contact_id, current_user) = {}
       THEN /\ last' = Resp("update_contact", 404, "Not found or not authorized!")
            /\ UNCHANGED <<users, contacts, next_id, now, bt, issued>>
       ELSE IF EmailTaken(body.email, contact_id)
       THEN /\ last' = Resp("update_contact", 500, "IntegrityError")
            /\ UNCHANGED <<users, contacts, next_id, now, bt, issued>>
       ELSE /\ contacts' = repo_update_contact(contact_id, body, current_user)
            /\ last' = Resp("update_contact", 200, "")
            /\ UNCHANGED <<users, next_id, now, bt, issued>>

\* Faulty variant: delete by id, whoever asks
delete_contact_unguarded(token, contact_id) ==
    /\ contacts' = {c \in contacts : c.id # contact_id}
    /\ last' = Resp("delete_contact", 204, "")
    /\ UNCHANGED <<users, next_id, now, bt, issued>>

\* DELETE /contacts/id/{contact_id}
delete_contact(token, contact_id) ==
    LET current_user == get_current_user(token)
    IN IF current_user = 0
       THEN /\ last' = Unauthorized("delete_contact", token)
            /\ UNCHANGED <<users, contacts, next_id, now, bt, issued>>
       ELSE IF filter_by(contact_id, current_user) = {}
       THEN /\ last' = Resp("delete_contact", 404, "Not found or not authorized!")
            /\ UNCHANGED <<users, contacts, next_id, now, bt, issued>>
       ELSE /\ contacts' = repo_delete_contact(contact_id, current_user)
            /\ last' = Resp("delete_contact", 204, "")
            /\ UNCHANGED <<users, next_id, now, bt, issued>>

ContactIds == 1..MaxContacts

\* The clock advances between requests.
Tick ==
    /\ now < MaxTime
    /\ now' = now + 1
    /\ issued' = {Aged(t, now + 1) : t \in issued}
    /\ revoked' = {t \in revoked : t.exp > now + 1}
    /\ UNCHANGED <<users, contacts, next_id, bt, last, calls, scenario>>

Init ==
    /\ users = <<>>
    /\ contacts = {}
    /\ next_id = 1
    /\ now = 0
    /\ bt = [e \in Emails |-> 0]
    /\ issued = {}
    /\ last = Resp("init", 0, "")
    /\ revoked = {}
    /\ calls = [c \in CallIds |-> Idle]
    /\ scenario = <<>>

\* Every operation of the service.
Next ==
    \/ \E e \in SignupEmails, p \in SignupPasswords :
         signup(e, p) /\ UNCHANGED hist
    \/ \E e \in Emails, ok \in BOOLEAN : send_email(e, ok) /\ UNCHANGED hist
    \/ \E e \in Emails, p \in Passwords : login(e, p) /\ UNCHANGED hist
    \/ \E t \in Presentable : refresh_token(t) /\ UNCHANGED hist
    \/ \E t \in Presentable : confirmed_email(t) /\ UNCHANGED hist
    \/ \E e \in Emails : request_email(e) /\ UNCHANGED hist
    \/ \E t \in Presentable : update_avatar_user(t) /\ UNCHANGED hist
    \/ \E t \in Presentable, b \in Bodies :
         create_contact(t, b) /\ UNCHANGED hist
    \/ \E t \in Presentable, c \in ContactIds, b \in Bodies :
         update_contact(t, c, b) /\ UNCHANGED hist
    \/ \E t \in Presentable, c \in ContactIds :
         delete_contact(t, c) /\ UNCHANGED hist
    \/ Tick

Spec == Init /\ [][Next]_vars

\* The authentication flows alone.
NextAuth ==
    \/ \E e \in SignupEmails, p \in SignupPasswords :
         signup(e, p) /\ UNCHANGED hist
    \/ \E e \in Emails, ok \in BOOLEAN : send_email(e, ok) /\ UNCHANGED hist
    \/ \E e \in Emails, p \in Passwords : login(e, p) /\ UNCHANGED hist
    \/ \E t \in Presentable : refresh_token(t) /\ UNCHANGED hist
    \/ \E t \in Presentable : confirmed_email(t) /\ UNCHANGED hist
    \/ \E e \in Emails : request_email(e) /\ UNCHANGED hist
    \/ Tick

SpecAuth == Init /\ [][NextAuth]_vars

\* The authentication flows, with the history of rejected refresh tokens.
Rejects(token) ==
    IF last'.detail = "Invalid refresh token" THEN {token} ELSE {}

NextRevoke ==
    \/ \E e \in SignupEmails, p \in SignupPasswords :
         signup(e, p) /\ UNCHANGED hist
    \/ \E e \in Emails, ok \in BOOLEAN : send_email(e, ok) /\ UNCHANGED hist
    \/ \E e \in Emails, p \in Passwords : login(e, p) /\ UNCHANGED hist
    \/ \E t \in Presentable :
         refresh_token(t) /\ revoked' = revoked \cup Rejects(t)
                          /\ UNCHANGED <<calls, scenario>>
    \/ \E t \in Presentable : confirmed_email(t) /\ UNCHANGED hist
    \/ Tick

SpecRevoke == Init /\ [][NextRevoke]_vars

\* The contact operations, with the flows that give their callers an identity.
NextContacts ==
    \/ \E e \in SignupEmails, p \in SignupPasswords :
         signup(e, p) /\ UNCHANGED hist
    \/ \E e \in Emails, ok \in BOOLEAN : send_email(e, ok) /\ UNCHANGED hist
    \/ \E e \in Emails, p \in Passwords : login(e, p) /\ UNCHANGED hist
    \/ \E t \in Presentable : confirmed_email(t) /\ UNCHANGED hist
    \/ \E t \in Presentable, b \in Bodies :
         create_contact(t, b) /\ UNCHANGED hist
    \/ \E t \in Presentable, c \in ContactIds, b \in Bodies :
         update_contact(t, c, b) /\ UNCHANGED hist
    \/ \E t \in Presentable, c \in ContactIds :
         delete_contact(t, c) /\ UNCHANGED hist
    \/ Tick

SpecContacts == Init /\ [][NextContacts]_vars

\* The clock advances and the clients keep their tokens as they were issued.
TickRaw ==
    /\ now < MaxAge
    /\ now' = now + 1
    /\ UNCHANGED <<users, contacts, next_id, bt, issued, last, revoked, calls,
                   scenario>>

\* One user's tokens of every scope, presented to every flow as they age.
NextExpiry ==
    \/ \E p \in SignupPasswords : signup(EmailSeq[1], p) /\ UNCHANGED hist
    \/ send_email(EmailSeq[1], TRUE) /\ UNCHANGED hist
    \/ \E p \in Passwords : login(EmailSeq[1], p) /\ UNCHANGED hist
    \/ \E t \in Presentable : refresh_token(t) /\ UNCHANGED hist
    \/ \E t \in Presentable : confirmed_email(t) /\ UNCHANGED hist
    \/ \E t \in Presentable : update_avatar_user(t) /\ UNCHANGED hist
    \/ TickRaw

SpecExpiry == Init /\ [][NextExpiry]_vars

\* A request without Authorization header, and a signed access token whose
\* subject is the email of no user.
Missing == [sub |-> "", scope |-> "missing", iat |-> 0, exp |-> 0]
Orphan == issue("ghost@x", "access", now)
Credentials == Presentable \cup {Missing, Orphan}

\* The JSON a client posts may carry an owner field (0: it carries none);
\* ContactInput declares no such field and keeps only its own.
Owners == 0..Len(EmailSeq)
RawBodies == {[first_name |-> b.first_name, email |-> b.email, user_id |-> o] :
                b \in Bodies, o \in Owners}
ContactInput(raw) == [first_name |-> raw.first_name, email |-> raw.email]

\* The contact operations called with every kind of credentials.
NextGuard ==
    \/ \E e \in SignupEmails, p \in SignupPasswords :
         signup(e, p) /\ UNCHANGED hist
    \/ \E e \in Emails : send_email(e, TRUE) /\ UNCHANGED hist
    \/ \E e \in Emails, p \in SignupPasswords : login(e, p) /\ UNCHANGED hist
    \/ \E t \in Presentable : confirmed_email(t) /\ UNCHANGED hist
    \/ \E t \in Credentials, raw \in RawBodies :
         create_contact(t, ContactInput(raw)) /\ UNCHANGED hist
    \/ \E t \in Credentials, c \in ContactIds, b \in Bodies :
         update_contact(t, c, b) /\ UNCHANGED hist
    \/ \E t \in Credentials, c \in ContactIds :
         delete_contact(t, c) /\ UNCHANGED hist
    \/ Tick

SpecGuard == Init /\ [][NextGuard]_vars

\* Two refresh requests of one user that interleave at their awaits.
NextRace ==
    \/ \E p \in SignupPasswords : signup(EmailSeq[1], p) /\ UNCHANGED hist
    \/ send_email(EmailSeq[1], TRUE) /\ UNCHANGED hist
    \/ \E t \in Presentable : confirmed_email(t) /\ UNCHANGED hist
    \/ \E p \in SignupPasswords : login(EmailSeq[1], p) /\ UNCHANGED hist
    \/ \E c \in CallIds, t \in Presentable : refresh_read(c, t)
    \/ \E c \in CallIds : refresh_write(c)
    \/ Tick

SpecRace == Init /\ [][NextRace]_vars

\* The end-to-end scenario of one email e: signup, login, confirmation,
\* login, refresh with the returned refresh token, refresh with it again.
\* Each step is the handler; its response is appended to the history.  The
\* mail runs in the background and may be asked for again; tokens are
\* presented while they have not expired.
Step(k) ==
    /\ Len(scenario) = k - 1
    /\ scenario' = Append(scenario, last')
    /\ UNCHANGED <<revoked, calls>>

ScenarioEmail == EmailSeq[1]

NextScenario ==
    \/ \E p \in SignupPasswords : signup(ScenarioEmail, p) /\ Step(1)
    \/ \E p \in SignupPasswords : login(ScenarioEmail, p) /\ Step(2)
    \/ \E t \in issued :
         /\ t.scope = "email_verification" /\ t.exp > now
         /\ confirmed_email(t) /\ Step(3)
    \/ \E p \in SignupPasswords : login(ScenarioEmail, p) /\ Step(4)
    \/ /\ Len(scenario) = 4
       /\ scenario[4].refresh_token.exp > now
       /\ refresh_token(scenario[4].refresh_token) /\ Step(5)
    \/ /\ Len(scenario) = 5
       /\ scenario[4].refresh_token.exp > now
       /\ refresh_token(scenario[4].refresh_token) /\ Step(6)
    \/ \E ok \in BOOLEAN : send_email(ScenarioEmail, ok) /\ UNCHANGED hist
    \/ request_email(ScenarioEmail) /\ UNCHANGED hist
    \/ Tick

SpecScenario == Init /\ [][NextScenario]_vars

\* Two signup requests that interleave at their awaits, and what the users
\* they create can go on to do.
NextSignupRace ==
    \/ \E c \in CallIds, e \in Emails, p \in SignupPasswords :
         signup_check(c, e, p)
    \/ \E c \in CallIds : signup_insert(c)
    \/ \E e \in Emails, ok \in BOOLEAN : send_email(e, ok) /\ UNCHANGED hist
    \/ \E t \in Presentable : confirmed_email(t) /\ UNCHANGED hist
    \/ \E e \in Emails, p \in Passwords : login(e, p) /\ UNCHANGED hist
    \/ Tick

SpecSignupRace == Init /\ [][NextSignupRace]_vars

\* A contacts table that holds a row without owner (user_id is nullable; 0
\* stands for NULL), with an id the sequence will not hand out again.
LegacyId == MaxContacts + 1
Legacy == [id |-> LegacyId, first_name |-> "n0", email |-> "c0", user_id |-> 0]

InitOwnerless ==
    /\ users = <<>>
    /\ contacts = {Legacy}
    /\ next_id = 1
    /\ now = 0
    /\ bt = [e \in Emails |-> 0]
    /\ issued = {}
    /\ last = Resp("init", 0, "")
    /\ revoked = {}
    /\ calls = [c \in CallIds |-> Idle]
    /\ scenario = <<>>

NextOwnerless ==
    \/ \E e \in SignupEmails, p \in SignupPasswords :
         signup(e, p) /\ UNCHANGED hist
    \/ \E e \in Emails : send_email(e, TRUE) /\ UNCHANGED hist
    \/ \E e \in Emails, p \in SignupPasswords : login(e, p) /\ UNCHANGED hist
    \/ \E t \in Presentable : confirmed_email(t) /\ UNCHANGED hist
    \/ \E t \in Presentable, b \in Bodies :
         create_contact(t, b) /\ UNCHANGED hist
    \/ \E t \in Presentable, c \in ContactIds \cup {LegacyId}, b \in Bodies :
         update_contact(t, c, b) /\ UNCHANGED hist
    \/ \E t \in Presentable, c \in ContactIds \cup {LegacyId} :
         delete_contact(t, c) /\ UNCHANGED hist
    \/ Tick

SpecOwnerless == InitOwnerless /\ [][NextOwnerless]_vars

\* --------------------------------------------------- two sessions of a user
\* One user logs in twice, then the refresh token of the first login is
\* presented, then the one of the second login.  The history keeps the two
\* successful logins and the two refresh responses; the clock runs freely,
\* so a token may have expired when it is presented.
NextSessions ==
    \/ \E p \in SignupPasswords : signup(ScenarioEmail, p) /\ UNCHANGED hist
    \/ send_email(ScenarioEmail, TRUE) /\ UNCHANGED hist
    \/ \E t \in Presentable : confirmed_email(t) /\ UNCHANGED hist
    \/ \E p \in Passwords :
         /\ Len(scenario) < 2
         /\ login(ScenarioEmail, p)
         /\ scenario' = IF last'.status = 200 THEN Append(scenario, last')
                         ELSE scenario
         /\ UNCHANGED <<revoked, calls>>
    \/ /\ Len(scenario) = 2
       /\ refresh_token(scenario[1].refresh_token) /\ Step(3)
    \/ /\ Len(scenario) = 3
       /\ refresh_token(scenario[2].refresh_token) /\ Step(4)
    \/ TickRaw

SpecSessions == Init /\ [][NextSessions]_vars

\* ------------------------------------------------- a table of two contacts
\* The first user after signup and confirmation, and the two contacts that
\* user created with the two bodies.
FirstUser ==
    [id |-> 1, email |-> EmailSeq[1], password |-> get_password_hash("pw1"),
     avatar |-> Gravatar(EmailSeq[1]), verification |-> TRUE,
     refresh_token |-> Null, updated_at |-> 0]
OwnedIds == {1, 2}
Owned ==
    {[id |-> 1, first_name |-> "n1", email |-> "c1", user_id |-> 1],
     [id |-> 2, first_name |-> "n2", email |-> "c2", user_id |-> 1]}

InitOwned ==
    /\ users = <<FirstUser>>
    /\ contacts = Owned
    /\ next_id = 3
    /\ now = 0
    /\ bt = [e \in Emails |-> 0]
    /\ issued = {}
    /\ last = Resp("init", 0, "")
    /\ revoked = {}
    /\ calls = [c \in CallIds |-> Idle]
    /\ scenario = <<>>

NextOwned ==
    \/ \E e \in SignupEmails, p \in SignupPasswords :
         signup(e, p) /\ UNCHANGED hist
    \/ \E e \in Emails : send_email(e, TRUE) /\ UNCHANGED hist
    \/ \E e \in Emails, p \in SignupPasswords : login(e, p) /\ UNCHANGED hist
    \/ \E t \in Presentable : confirmed_email(t) /\ UNCHANGED hist
    \/ \E t \in Presentable, c \in OwnedIds, b \in Bodies :
         update_contact(t, c, b) /\ UNCHANGED hist
    \/ \E t \in Presentable, c \in OwnedIds :
         delete_contact(t, c) /\ UNCHANGED hist
    \/ Tick

SpecOwned == InitOwned /\ [][NextOwned]_vars

\* ------------------------------------------------------ upcoming birthdays
\* datetime.date: a record [y, m, d] of the proleptic Gregorian calendar.
is_leap(y) == (y % 4 = 0) /\ ((y % 100 # 0) \/ (y % 400 = 0))

days_in_month(y, m) ==
    IF m = 2 THEN (IF is_leap(y) THEN 29 ELSE 28)
    ELSE IF m \in {4, 6, 9, 11} THEN 30 ELSE 31

valid_date(date) ==
    /\ date.m \in 1..12
    /\ date.d \in 1..days_in_month(date.y, date.m)

RECURSIVE days_before_month(_, _)
days_before_month(y, m) ==
    IF m = 1 THEN 0 ELSE days_before_month(y, m - 1) + days_in_month(y, m - 1)

\* The years the dates of the model are counted from.
FirstYear == 1988
RECURSIVE days_before_year(_)
days_before_year(y) ==
    IF y = FirstYear THEN 0
    ELSE days_before_year(y - 1) + (IF is_leap(y - 1) THEN 366 ELSE 365)

\* date.toordinal(), counted from 1 January of FirstYear
toordinal(date) ==
    days_before_year(date.y) + days_before_month(date.y, date.m) + date.d

\* (a - b).days
days_between(a, b) == toordinal(a) - toordinal(b)

\* birthday.strftime('%Y-%m-%d') as create_contact stores it, and
\* datetime.strptime(s, '%Y-%m-%d').date() that reads it back: the text is
\* its three zero-padded numbers.
strftime(date) == <<date.y, date.m, date.d>>
strptime(text) == [y |-> text[1], m |-> text[2], d |-> text[3]]

\* birthday.replace(year=y): a date, or ValueError for 29 February in a
\* year that is not leap.
replace_year(date, y) == [date EXCEPT !.y = y]
replace_raises(date, y) == ~valid_date(replace_year(date, y))

\* get_contacts_with_upcoming_birthdays: the test made on one contact
upcoming(birthday, current_date) ==
    LET birthday_this_year == replace_year(birthday, current_date.y)
        days_until_birthday == days_between(birthday_this_year, current_date)
    IN 0 <= days_until_birthday /\ days_until_birthday <= 7

\* GET /contacts/birthday/next_week; the clock reads a calendar date
get_contacts_with_upcoming_birthdays ==
    LET current_date == now
    IN /\ last.op = "init"
       /\ IF \E c \in contacts :
               replace_raises(strptime(c.birthday), current_date.y)
          THEN last' = Resp("birthdays", 500, "ValueError")
          ELSE last' = [op |-> "birthdays", status |-> 200, detail |-> "",
                        access_token |-> Null, refresh_token |-> Null,
                        contacts |-> {c \in contacts :
                                        upcoming(strptime(c.birthday),
                                                 current_date)}]
       /\ UNCHANGED <<users, contacts, next_id, now, bt, issued, hist>>

\* The dates the request is made on and the birthdays in the table.
Day(y, m, d) == [y |-> y, m |-> m, d |-> d]
Todays ==
    {Day(y, 12, d) : y \in {2023, 2024}, d \in 24..31} \cup
    {Day(y, 1, d) : y \in {2024, 2025}, d \in 1..2} \cup
    {Day(y, 2, d) : y \in {2023, 2024}, d \in 21..28} \cup
    {Day(2024, 2, 29)}
Birthdays ==
    {Day(1990, 12, 28), Day(1990, 12, 31), Day(1991, 1, 1), Day(1991, 1, 3),
     Day(1991, 1, 7), Day(1990, 2, 28), Day(1990, 3, 1), Day(1990, 3, 6),
     Day(1988, 2, 29)}

\* create_contact's row with its birthday column
BirthdayRow(i, date) ==
    [id |-> i, first_name |-> "n1", email |-> <<"c", i>>, user_id |-> 1,
     birthday |-> strftime(date)]

InitBirthdays ==
    /\ users = <<>>
    /\ \E b1 \in Birthdays, b2 \in Birthdays :
         contacts = {BirthdayRow(1, b1), BirthdayRow(2, b2)}
    /\ next_id = 3
    /\ now \in Todays
    /\ bt = [e \in Emails |-> 0]
    /\ issued = {}
    /\ last = Resp("init", 0, "")
    /\ revoked = {}
    /\ calls = [c \in CallIds |-> Idle]
    /\ scenario = <<>>

NextBirthdays == get_contacts_with_upcoming_birthdays

SpecBirthdays == InitBirthdays /\ [][NextBirthdays]_vars

\* ================================================================= claims

\* C1: when the caller B of update_contact or delete_contact is not the
\* owner of the contact with the given id, the call answers 404 and the
\* contacts table, that contact's row with its user_id included, is unchanged.
C1_OwnershipGuard ==
    [][\A t \in Presentable, cid \in ContactIds :
         LET B == get_current_user(t)
         IN (B # 0 /\ \E c \in contacts : c.id = cid /\ c.user_id # B)
            => /\ last'.op = "update_contact"
                    => \A b \in Bodies :
                         update_contact(t, cid, b)
                         => (last'.status = 404 /\ contacts' = contacts)
               /\ last'.op = "delete_contact"
                    => (delete_contact(t, cid)
                         => (last'.status = 404 /\ contacts' = contacts))]_vars

\* Every contact id is in use and an update was answered 404: its caller
\* was an identity that does not own the contact.
C1_Witness ==
    /\ last.op = "update_contact" /\ last.status = 404
    /\ last.detail = "Not found or not authorized!"
    /\ \A cid \in ContactIds : \E c \in contacts : c.id = cid

\* The presented token decodes as a refresh token of an existing user.
RefreshUser(t) ==
    LET d == decode(t, "refresh", now)
    IN IF d.ok THEN get_user_by_email(d.sub) ELSE 0

\* C2 (first half): a refresh with a validly decoded token that is not the
\* user's stored refresh_token sets the stored token to null and answers 401.
C2_MismatchClears ==
    [][\A t \in Presentable :
         LET u == RefreshUser(t)
         IN (refresh_token(t) /\ u # 0 /\ users[u].refresh_token # t)
            => /\ last'.status = 401
               /\ users'[u].refresh_token = Null]_vars

\* C2: as the first half, and any later refresh call with a token that was
\* rejected this way also answers 401.
C2_RejectedStaysRejected ==
    [][\A t \in Presentable :
         LET u == RefreshUser(t)
         IN /\ (refresh_token(t) /\ u # 0 /\ users[u].refresh_token # t)
                 => /\ last'.status = 401
                    /\ users'[u].refresh_token = Null
            /\ (refresh_token(t) /\ t \in revoked) => last'.status = 401]_vars

\* A token that refresh rejected as not the stored one still decodes as a
\* refresh token of a user whose stored token is null.
C2_Witness ==
    /\ last.op = "refresh_token" /\ last.status = 401
    /\ last.detail = "Invalid refresh token"
    /\ \E t \in revoked :
         /\ RefreshUser(t) # 0
         /\ users[RefreshUser(t)].refresh_token = Null

C4_LoginFails ==
    [][\A e \in Emails, p \in Passwords :
         LET u == get_user_by_email(e)
         IN (/\ login(e, p)
             /\ \/ u = 0
                \/ ~users[u].verification
                \/ ~verify_password(p, users[u].password))
            => /\ last'.status = 401
               /\ last'.access_token = Null /\ last'.refresh_token = Null
               /\ issued' = issued
               /\ users' = users]_vars

\* A verified user's login was refused for its password.
C4_Witness ==
    /\ last.op = "login" /\ last.status = 401
    /\ last.detail = "Invalid password"
    /\ \E i \in UserIds : users[i].verification

\* C5: a login of an existing, verified user with the password that verifies
\* answers 200 with one access and one refresh token whose subject is the
\* user's email, and the stored refresh_token is the returned refresh token.
C5_LoginSucceeds ==
    [][\A e \in Emails, p \in Passwords :
         LET u == get_user_by_email(e)
         IN (/\ login(e, p)
             /\ u # 0
             /\ users[u].verification
             /\ verify_password(p, users[u].password))
            => /\ last'.status = 200
               /\ last'.access_token = issue(e, "access", now)
               /\ last'.refresh_token = issue(e, "refresh", now)
               /\ {last'.access_token, last'.refresh_token} \subseteq issued'
               /\ users'[u].refresh_token = last'.refresh_token]_vars

C5_Witness ==
    /\ last.op = "login" /\ last.status = 200
    /\ \E i \in UserIds : /\ users[i].email = last.refresh_token.sub
                          /\ users[i].refresh_token = last.refresh_token

\* C6: a user row is created with verification false, no row is ever removed,
\* verification turns true only in a step that is the email confirmation,
\* and a verification that is true stays true in every step.
C6_VerificationMonotone ==
    [][/\ Len(users') >= Len(users)
       /\ \A i \in 1..Len(users') :
            IF i > Len(users)
            THEN ~users'[i].verification
            ELSE /\ users[i].verification => users'[i].verification
                 /\ (~users[i].verification /\ users'[i].verification)
                      => /\ last'.op = "confirmed_email"
                         /\ last'.detail = "Email confirmed"]_vars

\* A verified user has logged in and changed its avatar, and is still verified.
C6_Witness ==
    /\ last.op = "update_avatar_user" /\ last.status = 200
    /\ \E i \in UserIds : /\ users[i].verification
                          /\ users[i].avatar = CloudinaryUrl(i)

\* C7: confirmed_email with a valid token of a user that is already verified
\* answers 200 "already confirmed" and writes nothing: every user row, with
\* its verification, refresh_token and updated_at, is as before.
C7_ConfirmIdempotent ==
    [][\A t \in Presentable :
         LET d == decode(t, "email_verification", now)
         IN (/\ d.ok
             /\ confirmed_email(t)
             /\ get_user_by_email(d.sub) # 0
             /\ users[get_user_by_email(d.sub)].verification)
            => /\ last'.status = 200
               /\ last'.detail = "Your email is already confirmed"
               /\ users' = users]_vars

\* The already verified user was updated before the clock's current second.
C7_Witness ==
    /\ last.op = "confirmed_email"
    /\ last.detail = "Your email is already confirmed"
    /\ \E i \in UserIds : users[i].verification /\ users[i].updated_at < now

\* C8: signup with the email of an existing user answers 409 and leaves the
\* users table as it is; signup with an unused email appends exactly one
\* row, with that email, verification false and no refresh token.
C8_Signup ==
    [][\A e \in SignupEmails, p \in SignupPasswords :
         signup(e, p)
         => IF get_user_by_email(e) # 0
            THEN last'.status = 409 /\ users' = users
            ELSE /\ last'.status = 201
                 /\ Len(users') = Len(users) + 1
                 /\ SubSeq(users', 1, Len(users)) = users
                 /\ users'[Len(users')].email = e
                 /\ ~users'[Len(users')].verification
                 /\ users'[Len(users')].refresh_token = Null]_vars

C8_Witness ==
    /\ last.op = "signup" /\ last.status = 409
    /\ Len(users) >= 1

\* C9: a step changes the stored refresh_token of a user only when it is a
\* successful login, a successful refresh or a refresh rejected for a token
\* that is not the stored one; a new row starts without one.
C9_RefreshTokenWriters ==
    [][/\ \A i \in UserIds :
            users'[i].refresh_token # users[i].refresh_token
            => \/ last'.op = "login" /\ last'.status = 200
               \/ /\ last'.op = "refresh_token"
                  /\ \/ last'.status = 200
                     \/ last'.detail = "Invalid refresh token"
       /\ \A i \in 1..Len(users') :
            i > Len(users) => users'[i].refresh_token = Null]_vars

\* A second user signed up, or an avatar was updated, while a user held a
\* stored refresh token.
C9_Witness ==
    /\ last.op = "update_avatar_user" /\ last.status = 200
    /\ Len(users) = 2
    /\ \E i \in UserIds : users[i].refresh_token # Null

\* C10 (as stated): a token of scope A decoded with an expected scope B # A
\* fails with ScopeMismatch.
C10_AlwaysScopeMismatch ==
    \A t \in issued, B \in Scopes :
        t.scope # B => decode(t, B, now).err = "ScopeMismatch"

\* C10 (amended): a token of scope A decoded with an expected scope B # A is
\* rejected, with ScopeMismatch while it has not expired and with
\* ExpiredToken once it has; refresh answers 401 to an access or
\* email-verification token and changes nothing, and a refresh token
\* resolves to no identity as a bearer token.
C10_ScopeSeparation ==
    [][\A t \in issued :
         /\ \A B \in Scopes :
              t.scope # B
              => /\ ~decode(t, B, now).ok
                 /\ decode(t, B, now).err =
                      IF t.exp > now THEN "ScopeMismatch" ELSE "ExpiredToken"
         /\ (t.scope # "refresh" /\ last'.op = "refresh_token"
                                  /\ refresh_token(t))
              => /\ last'.status = 401
                 /\ users' = users /\ issued' = issued
         /\ t.scope # "access" => get_current_user(t) = 0]_vars

\* refresh was given an unexpired token of another scope.
C10_Witness ==
    /\ last.op = "refresh_token" /\ last.status = 401
    /\ last.detail = "ScopeMismatch"

\* C11: a token whose ttl has elapsed (now >= exp) fails decode with
\* ExpiredToken for every expected scope, its own included, and no flow
\* accepts it: refresh and email confirmation answer 401 and write nothing,
\* and it resolves to no current identity.
C11_ExpiredRejected ==
    [][\A t \in issued :
         ~(t.exp > now)
         => /\ \A B \in Scopes :
                 /\ ~decode(t, B, now).ok
                 /\ decode(t, B, now).err = "ExpiredToken"
            /\ get_current_user(t) = 0
            /\ refresh_token(t)
                 => (last'.status = 401 /\ users' = users /\ issued' = issued)
            /\ confirmed_email(t)
                 => (last'.status = 401 /\ users' = users)
            /\ update_avatar_user(t)
                 => (last'.status = 401 /\ users' = users)]_vars

\* A flow refused a token as expired while the client holds an expired token
\* of each scope, each still carrying its subject.
C11_Witness ==
    /\ last.status = 401 /\ last.detail = "ExpiredToken"
    /\ \A sc \in Scopes :
         \E t \in issued : t.scope = sc /\ ~(t.exp > now) /\ t.sub = EmailSeq[1]

C13_ContactsNeedIdentity ==
    [][/\ \A t \in Credentials :
            get_current_user(t) = 0
            => /\ last'.op = "create_contact"
                    => \A b \in Bodies :
                         create_contact(t, b)
                         => /\ last'.status = 401
                            /\ contacts' = contacts /\ next_id' = next_id
               /\ last'.op = "update_contact"
                    => \A cid \in ContactIds, b \in Bodies :
                         update_contact(t, cid, b)
                         => (last'.status = 401 /\ contacts' = contacts)
               /\ last'.op = "delete_contact"
                    => \A cid \in ContactIds :
                         delete_contact(t, cid)
                         => (last'.status = 401 /\ contacts' = contacts)
       /\ contacts' # contacts
            => /\ last'.op \in {"create_contact", "update_contact",
                                "delete_contact"}
               /\ last'.status # 401]_vars

\* A delete with a signed access token of an unknown subject was refused
\* while a contact exists and the client also holds an expired access token
\* and a refresh token.
C13_Witness ==
    /\ last.op = "delete_contact" /\ last.status = 401
    /\ last.detail = "Could not validate credentials"
    /\ contacts # {}
    /\ Expired("access") \in issued
    /\ \E t \in issued : t.scope = "refresh" /\ t.exp > now

\* C14: a contact that create_contact adds has user_id equal to the id of the
\* acting identity, whatever owner field the posted body carries; a row with
\* a new id appears only this way, and no step changes a row's user_id.
C14_CreateStampsOwner ==
    [][/\ \A t \in Credentials, raw \in RawBodies :
            (contacts' # contacts /\ create_contact(t, ContactInput(raw)))
            => \A c \in contacts' \ contacts :
                 /\ get_current_user(t) # 0
                 /\ c.user_id = get_current_user(t)
                 /\ c.id = next_id
       /\ \A c \in contacts' :
            IF \E d \in contacts : d.id = c.id
            THEN \E d \in contacts : d.id = c.id /\ d.user_id = c.user_id
            ELSE last'.op = "create_contact"]_vars

\* The second user created a contact: it is owned by the second user.
C14_Witness ==
    /\ last.op = "create_contact"
    /\ Len(users) = 2
    /\ \E c \in contacts : c.user_id = 2 /\ c.id = next_id - 1

\* C15: create_contact called by an authenticated user with a valid body
\* (its email not yet in the table) persists the contact and answers 201,
\* so that get_contact_by_id finds the new id afterwards.
C15_CreateAnswers201 ==
    [][\A t \in Presentable, b \in Bodies :
         (/\ create_contact(t, b)
          /\ get_current_user(t) # 0
          /\ ~EmailTaken(b.email, 0))
         => /\ last'.status = 201
            /\ \E c \in contacts' :
                 /\ c.id = next_id /\ c.email = b.email
                 /\ c.first_name = b.first_name
                 /\ c.user_id = get_current_user(t)]_vars

\* The create endpoint answered 404 and the contact it was asked to create
\* is in the table, where get_contact_by_id finds it.
C15_Witness ==
    /\ last.op = "create_contact" /\ last.status = 404
    /\ get_contact_by_id(next_id - 1) # {}

\* C16: request_email answers 200 with one and the same acknowledgment for
\* the email of no user, of an unverified user and of a verified user, and
\* never fails.
C16_GenericAck ==
    [][\A e \in Emails :
         request_email(e)
         => /\ last'.status = 200
            /\ last'.detail = "Check your email for confirmation."]_vars

\* request_email failed for the email of no user.
C16_Witness ==
    /\ last.op = "request_email" /\ last.status = 500
    /\ \E e \in Emails : get_user_by_email(e) = 0

\* C17: request_email for a verified user queues no mail and changes no
\* state; for an existing unverified user it queues exactly one mail for
\* that user's email and writes nothing else, verification staying false;
\* the mail, when sent, carries an email_verification token issued then for
\* that email.
C17_Resend ==
    [][\A e \in Emails :
         LET u == get_user_by_email(e)
         IN /\ (request_email(e) /\ u # 0)
                 => /\ last'.status = 200
                    /\ users' = users /\ issued' = issued
                    /\ contacts' = contacts
                    /\ IF users[u].verification
                       THEN bt' = bt
                       ELSE /\ bt' = [bt EXCEPT ![e] = bt[e] + 1]
                            /\ ~users'[u].verification
            /\ send_email(e, TRUE)
                 => /\ issued' = issued \cup
                                  {issue(e, "email_verification", now)}
                    /\ bt' = [bt EXCEPT ![e] = bt[e] - 1]
                    /\ users' = users]_vars

\* A mail was queued again for an unverified user that had been sent a
\* verification token in an earlier second.
C17_Witness ==
    /\ last.op = "request_email"
    /\ last.detail = "Check your email for confirmation."
    /\ \E i \in UserIds :
         /\ ~users[i].verification
         /\ bt[users[i].email] = 1
         /\ \E t \in issued : /\ t.scope = "email_verification"
                              /\ t.sub = users[i].email
                              /\ t.iat < now

\* The other refresh request presented the same token for the same user and
\* was answered 200.
Raced(c) ==
    \E k \in CallIds \ {c} :
        /\ calls[k].pc = "done" /\ calls[k].status = 200
        /\ calls[k].token = calls[c].token
        /\ calls[k].user = calls[c].user

\* C18 (what holds): when a refresh request commits after another request
\* with the same token succeeded, having read the stored token before that
\* one wrote, it succeeds too and the stored refresh_token is the token it
\* issued, not null.
C18_LastWriterWins ==
    [][\A c \in CallIds :
         (refresh_write(c) /\ Raced(c) /\ calls[c].seen = calls[c].token)
         => /\ calls'[c].status = 200
            /\ users'[calls[c].user].refresh_token = calls'[c].result
            /\ users'[calls[c].user].refresh_token # Null]_vars

\* C18: as above, and the stored refresh_token is never the original token
\* the two requests presented.
C18_NeverOriginal ==
    [][\A c \in CallIds :
         (refresh_write(c) /\ Raced(c) /\ calls[c].seen = calls[c].token)
         => /\ calls'[c].status = 200
            /\ users'[calls[c].user].refresh_token = calls'[c].result
            /\ users'[calls[c].user].refresh_token # Null
            /\ users'[calls[c].user].refresh_token # calls[c].token]_vars

\* Both requests presented one token issued in an earlier second, both
\* were answered 200, and the stored token is the one the later commit wrote.
C18_Witness ==
    /\ \A c \in CallIds : calls[c].pc = "done" /\ calls[c].status = 200
    /\ calls[1].token = calls[2].token
    /\ calls[1].token.iat < now
    /\ \E c \in CallIds :
         /\ calls[c].seq = 2
         /\ users[calls[c].user].refresh_token = calls[c].result

\* The first four steps of the scenario: the user is created, the first
\* login is refused as unverified, the confirmation succeeds and the second
\* login returns a token pair.
ScenarioLogin ==
    /\ Len(scenario) >= 1 => scenario[1].status = 201
    /\ Len(scenario) >= 2
         => /\ scenario[2].status = 401
            /\ scenario[2].detail = "Email not verification"
    /\ Len(scenario) >= 3
         => (scenario[3].status = 200 /\ scenario[3].detail = "Email confirmed")
    /\ Len(scenario) >= 4
         => /\ scenario[4].status = 200
            /\ scenario[4].access_token # Null
            /\ scenario[4].refresh_token # Null

\* C19 (what holds): the scenario goes as described when the first refresh
\* happens in a later second than the login: it returns a different pair,
\* and the second refresh with the original token answers 401.
C19_ScenarioLaterSecond ==
    /\ ScenarioLogin
    /\ Len(scenario) >= 5 => scenario[5].status = 200
    /\ (Len(scenario) >= 5
          /\ scenario[5].refresh_token.iat > scenario[4].refresh_token.iat)
         => /\ scenario[5].refresh_token # scenario[4].refresh_token
            /\ scenario[5].access_token # scenario[4].access_token
            /\ Len(scenario) >= 6 => scenario[6].status = 401

\* C19: in the scenario the first login answers 401, the second login
\* returns a pair, the first refresh succeeds with a pair different from the
\* login pair and the second refresh with the original token answers 401.
C19_Scenario ==
    /\ ScenarioLogin
    /\ Len(scenario) >= 5
         => /\ scenario[5].status = 200
            /\ scenario[5].refresh_token # scenario[4].refresh_token
            /\ scenario[5].access_token # scenario[4].access_token
    /\ Len(scenario) >= 6 => scenario[6].status = 401

\* The scenario ran to its end with the refresh one second after the login.
C19_Witness ==
    /\ Len(scenario) = 6
    /\ scenario[5].refresh_token.iat > scenario[4].refresh_token.iat
    /\ scenario[6].detail = "Invalid refresh token"

\* C20: signup with an unused email answers 201 with the user persisted and
\* the mail only queued, not sent; the mail task, delivered or failed,
\* changes neither the response nor any user row, and a failed mail hands
\* out no token.
C20_MailNeverFailsRequest ==
    [][/\ \A e \in SignupEmails, p \in SignupPasswords :
            (signup(e, p) /\ get_user_by_email(e) = 0)
            => /\ last'.status = 201
               /\ \E i \in 1..Len(users') : users'[i].email = e
               /\ bt' = [bt EXCEPT ![e] = bt[e] + 1]
               /\ issued' = issued
       /\ \A e \in Emails, ok \in BOOLEAN :
            send_email(e, ok)
            => /\ last' = last
               /\ users' = users
               /\ ~ok => issued' = issued]_vars

\* The signup was answered 201, its mail was processed and failed: the user
\* is there, unverified, and no verification token was handed out.
C20_Witness ==
    /\ last.op = "signup" /\ last.status = 201
    /\ \E i \in UserIds :
         /\ users[i].email = EmailSeq[Len(users)]
         /\ bt[users[i].email] = 0
         /\ \A t \in issued : t.sub # users[i].email

\* C21: no two user rows have the same email, and of two signup requests
\* for one email, interleaved or not, at most one is answered 201; there are
\* never more rows than signups answered 201.
C21_UniqueEmail ==
    /\ \A i, j \in UserIds : users[i].email = users[j].email => i = j
    /\ \A c, k \in CallIds :
         (/\ c # k
          /\ calls[c].email = calls[k].email
          /\ calls[c].status = 201)
         => calls[k].status # 201
    /\ Len(users) = Cardinality({c \in CallIds : calls[c].status = 201})

\* Two signups for one email both passed the existence check; one created
\* the user and the other failed at the insert.
C21_Witness ==
    /\ calls[1].email = calls[2].email
    /\ \E c, k \in CallIds : calls[c].status = 201 /\ calls[k].status = 500
    /\ Len(users) = 1

\* C22: a contact whose user_id is null is matched by no acting identity:
\* update_contact and delete_contact of its id answer 404 (401 without
\* identity) and leave it, and the whole table, unchanged; it stays in the
\* table in every state.
C22_OwnerlessUntouchable ==
    [][/\ Legacy \in contacts'
       /\ \A t \in Presentable :
            /\ last'.op = "update_contact"
                 => \A b \in Bodies :
                      update_contact(t, LegacyId, b)
                      => /\ last'.status = IF get_current_user(t) = 0
                                           THEN 401 ELSE 404
                         /\ contacts' = contacts
            /\ last'.op = "delete_contact"
                 => (delete_contact(t, LegacyId)
                      => /\ last'.status = IF get_current_user(t) = 0
                                           THEN 401 ELSE 404
                         /\ contacts' = contacts)]_vars

\* A user that owns a contact asked to delete the ownerless one and got 404.
C22_Witness ==
    /\ last.op = "delete_contact" /\ last.status = 404
    /\ Legacy \in contacts
    /\ \E c \in contacts : c.user_id # 0

\* The next date on or after today that has the birthday's month and day,
\* 29 February falling in leap years only, and the days up to it.
RECURSIVE next_birthday(_, _)
next_birthday(birthday, y) ==
    IF valid_date(replace_year(birthday, y)) THEN replace_year(birthday, y)
    ELSE next_birthday(birthday, y + 1)

days_to_next_birthday(birthday, today) ==
    LET this_year == next_birthday(birthday, today.y)
    IN IF days_between(this_year, today) >= 0
       THEN days_between(this_year, today)
       ELSE days_between(next_birthday(birthday, today.y + 1), today)

\* C23: the listing answers with exactly the contacts whose next birthday is
\* 0 to 7 days from today, for every date and birthday, the turn of the
\* year and a 29 February birthday included.
C23_UpcomingExact ==
    last.op = "birthdays"
    => /\ last.status = 200
       /\ last.contacts =
            {c \in contacts :
               days_to_next_birthday(strptime(c.birthday), now) \in 0..7}

\* C23 (what holds): when today and the 7th day after it are in one year
\* and no birthday is a 29 February, the listing is exact.
C23_UpcomingSameYear ==
    (/\ last.op = "birthdays"
     /\ now.m # 12
     /\ \A c \in contacts : strptime(c.birthday) # Day(1988, 2, 29))
    => /\ last.status = 200
       /\ last.contacts =
            {c \in contacts :
               days_to_next_birthday(strptime(c.birthday), now) \in 0..7}

\* On 28 December the listing was answered without the contact whose
\* birthday is 1 January.
C23_Witness ==
    /\ last.op = "birthdays" /\ last.status = 200
    /\ now = Day(2023, 12, 28)
    /\ \E c \in contacts :
         /\ strptime(c.birthday) = Day(1991, 1, 1)
         /\ c \notin last.contacts

\* C24: a login of an existing user who is not verified answers 401
\* "Email not verification" for every password, the right one included: the
\* flag is read first and the outcome does not depend on the password.
C24_VerificationBeforePassword ==
    [][\A e \in Emails, p \in Passwords :
         LET u == get_user_by_email(e)
         IN (login(e, p) /\ u # 0 /\ ~users[u].verification)
            => /\ last'.status = 401
               /\ last'.detail = "Email not verification"
               /\ \A q \in Passwords :
                    login_check(e, q) = "Email not verification"]_vars

\* An unverified user's login was refused for the flag, while the table
\* holds the hash of a password the login could have been made with.
C24_Witness ==
    /\ last.op = "login" /\ last.status = 401
    /\ last.detail = "Email not verification"
    /\ \E i \in UserIds, p \in Passwords :
         /\ ~users[i].verification
         /\ verify_password(p, users[i].password)
         /\ users[i].refresh_token = Null

\* The row of the table with the given id (the id is the primary key).
Row(table, id) == CHOOSE c \in table : c.id = id

\* C25: an update by the owner overwrites the contact's fields with the
\* body's and answers with the updated contact, id and user_id staying as
\* they were.
C25_UpdateOverwrites ==
    [][\A t \in Presentable, cid \in OwnedIds, b \in Bodies :
         (/\ update_contact(t, cid, b)
          /\ get_current_user(t) # 0
          /\ filter_by(cid, get_current_user(t)) # {})
         => /\ last'.status = 200
            /\ \E c \in contacts' :
                 /\ c.id = cid
                 /\ c.first_name = b.first_name /\ c.email = b.email
                 /\ c.user_id = Row(contacts, cid).user_id]_vars

\* C25 (what holds): an update the owner is answered 200 for leaves the
\* row with the body's fields and every other row as it was; and in every
\* step of every operation each contact that stays in the table keeps its
\* id and its user_id.
C25_OwnerNeverChanges ==
    [][/\ \A c \in contacts, d \in contacts' :
            c.id = d.id => c.user_id = d.user_id
       /\ \A d \in contacts' : \E c \in contacts : c.id = d.id
       /\ \A t \in Presentable, cid \in OwnedIds, b \in Bodies :
            (update_contact(t, cid, b) /\ last'.status = 200)
            => /\ Row(contacts', cid) =
                    [Row(contacts, cid) EXCEPT !.first_name = b.first_name,
                                               !.email = b.email]
               /\ \A c \in contacts : c.id # cid => c \in contacts']_vars

\* The owner's update was refused by the unique index on contacts.email:
\* both contacts are in the table as they were created.
C25_Witness ==
    /\ last.op = "update_contact" /\ last.status = 500
    /\ contacts = Owned

\* C26: a delete by the owner is answered 204 and removes that contact and
\* no other; after it a lookup of the id finds nothing and a delete of the
\* id by the same caller finds nothing; and a delete of an id that is not
\* in the table answers 404 and leaves the table as it is.
C26_DeleteRemovesOne ==
    [][\A t \in Presentable, cid \in OwnedIds :
         LET A == get_current_user(t)
         IN /\ (delete_contact(t, cid) /\ A # 0 /\ filter_by(cid, A) # {})
               => /\ last'.status = 204
                  /\ contacts' = contacts \ {Row(contacts, cid)}
                  /\ Row(contacts, cid).user_id = A
                  /\ get_contact_by_id(cid)' = {}
                  /\ filter_by(cid, A)' = {}
            /\ (delete_contact(t, cid) /\ A # 0 /\ get_contact_by_id(cid) = {})
               => /\ last'.status = 404
                  /\ contacts' = contacts
                  /\ get_contact_by_id(cid)' = {}]_vars

\* The owner deleted one of the two contacts and a second delete of the
\* same id was answered 404: the other contact is still in the table.
C26_Witness ==
    /\ last.op = "delete_contact" /\ last.status = 404
    /\ \E c \in Owned : contacts = {c}
    /\ Len(users) = 1

\* C27: in every reachable state a user whose stored refresh_token is not
\* null is verified.
C27_SessionImpliesVerified ==
    \A i \in UserIds :
        users[i].refresh_token # Null => users[i].verification

\* One user is verified and holds a session while another one has signed
\* up, tried to log in and is neither verified nor holding a session.
C27_Witness ==
    /\ last.op = "login" /\ last.status = 401
    /\ last.detail = "Email not verification"
    /\ \E i \in UserIds, j \in UserIds :
         /\ users[i].verification /\ users[i].refresh_token # Null
         /\ ~users[j].verification /\ users[j].refresh_token = Null

\* C28: in every reachable state each user's stored refresh_token is null
\* or a refresh-scope token whose subject is that user's email; and a
\* refresh call never changes the stored refresh_token of a user other
\* than the subject of the token it is called with.
C28_OwnTokenOnly ==
    /\ [](\A i \in UserIds :
            \/ users[i].refresh_token = Null
            \/ /\ users[i].refresh_token.scope = "refresh"
               /\ users[i].refresh_token.sub = users[i].email)
    /\ [][\A t \in Presentable, j \in UserIds :
            (refresh_token(t) /\ users[j].email # t.sub)
            => users'[j].refresh_token = users[j].refresh_token]_vars

\* Two users hold a session each and the last call rotated the token of
\* one of them: the other's stored token is still its own.
C28_Witness ==
    /\ last.op = "refresh_token" /\ last.status = 200
    /\ \E i \in UserIds, j \in UserIds :
         /\ i # j
         /\ users[i].refresh_token = last.refresh_token
         /\ users[j].refresh_token # Null
         /\ users[j].refresh_token.sub = users[j].email

\* C29: a login that is refused, for an unknown email, an unverified user
\* or a wrong password, leaves the users table as it was: every user's
\* stored refresh_token and verification are the same after it as before.
C29_FailedLoginChangesNothing ==
    [][\A e \in Emails, p \in Passwords :
         (login(e, p) /\ last'.status # 200)
         => /\ last'.status = 401
            /\ last'.detail \in {"Invalid email", "Email not verification",
                                 "Invalid password"}
            /\ Len(users') = Len(users)
            /\ \A i \in UserIds :
                 /\ users'[i].refresh_token = users[i].refresh_token
                 /\ users'[i].verification = users[i].verification
            /\ contacts' = contacts /\ bt' = bt]_vars

\* A login with a wrong password was refused while the user holds a
\* session: the stored refresh_token is still there.
C29_Witness ==
    /\ last.op = "login" /\ last.status = 401
    /\ last.detail = "Invalid password"
    /\ \E i \in UserIds :
         /\ users[i].refresh_token # Null
         /\ ~verify_password("pw2", users[i].password)

\* The stored refresh_token of the user of the two sessions.
Stored == users[get_user_by_email(ScenarioEmail)].refresh_token

\* Two logins returned different refresh tokens r1 = scenario[1] and
\* r2 = scenario[2].
TwoSessions ==
    /\ Len(scenario) >= 2
    /\ scenario[1].refresh_token # scenario[2].refresh_token

====
